---- MODULE Spec2Model ----
(***************************************************************************)
(* Model of charge_toy (src/main.rs): the particle record, the vector      *)
(* helpers, Particle::simulate_force, Particle::simulate_motion_step,      *)
(* particle_sim and the driver loop of main.                                *)
(*                                                                         *)
(* Numbers.  The program computes in f32.  The model computes the same     *)
(* expressions in exact rational arithmetic: a number is a pair <<n, d>>   *)
(* in lowest terms with d > 0.  Two more values stand for results that are *)
(* not rationals:                                                          *)
(*   NaN   = <<0, 0>>  the non-finite result of a division by zero.  In    *)
(*           simulate_force a zero distance makes normalize compute 0/0    *)
(*           for both components, and every later product and sum with it  *)
(*           is NaN, so one absorbing value is what the code produces.     *)
(*   Unrep = <<1, 0>>  a result the model cannot represent: an integer     *)
(*           beyond MaxInt or an irrational square root.  An action whose  *)
(*           result contains Unrep is disabled, so no state holds it.      *)
(***************************************************************************)
EXTENDS Integers, Sequences, FiniteSets, TLC

\* ------------------------------------------------------------------ bounds
MaxInt == 1000000000
MaxN == 3
MaxSteps == 2
MaxSimN == 2

\* ------------------------------------------------------------- arithmetic
Abs(a) == IF a < 0 THEN -a ELSE a

RECURSIVE GCD(_, _)
GCD(a, b) == IF b = 0 THEN a ELSE GCD(b, a % b)

NaN == <<0, 0>>
Unrep == <<1, 0>>
Zero == <<0, 1>>

IsNum(a) == a[2] > 0

\* the result of an operation one of whose operands is not a number
Bad(a, b) == IF a = Unrep \/ b = Unrep THEN Unrep ELSE NaN

\* a * b stays within MaxInt (decided without computing the product)
MulFits(a, b) == a = 0 \/ b = 0 \/ Abs(a) <= MaxInt \div Abs(b)

\* the rational n / d, d # 0, in lowest terms
Rat(n, d) ==
    LET g == GCD(Abs(n), Abs(d))
        s == IF d < 0 THEN -1 ELSE 1
    IN  <<s * (n \div g), s * (d \div g)>>

Whole(k) == <<k, 1>>

Neg(a) == IF IsNum(a) THEN <<-a[1], a[2]>> ELSE a

\* f32 `+`
Plus(a, b) ==
    IF ~(IsNum(a) /\ IsNum(b)) THEN Bad(a, b)
    ELSE LET g == GCD(a[2], b[2])
             ka == b[2] \div g
             kb == a[2] \div g
         IN  IF MulFits(a[2], ka) /\ MulFits(a[1], ka) /\ MulFits(b[1], kb)
                /\ Abs(a[1] * ka + b[1] * kb) <= MaxInt
             THEN Rat(a[1] * ka + b[1] * kb, a[2] * ka)
             ELSE Unrep

\* f32 `-`
Minus(a, b) == Plus(a, Neg(b))

\* f32 `*`
Times(a, b) ==
    IF ~(IsNum(a) /\ IsNum(b)) THEN Bad(a, b)
    ELSE LET g1 == GCD(Abs(a[1]), b[2])
             g2 == GCD(Abs(b[1]), a[2])
             n1 == a[1] \div g1
             n2 == b[1] \div g2
             d1 == a[2] \div g2
             d2 == b[2] \div g1
         IN  IF MulFits(n1, n2) /\ MulFits(d1, d2)
             THEN Rat(n1 * n2, d1 * d2)
             ELSE Unrep

\* f32 `/`: a division by zero gives a non-finite value
Over(a, b) ==
    IF ~(IsNum(a) /\ IsNum(b)) THEN Bad(a, b)
    ELSE IF b[1] = 0 THEN NaN
    ELSE Times(a, IF b[1] < 0 THEN <<-b[2], -b[1]>> ELSE <<b[2], b[1]>>)

\* the largest k in lo..hi with k * k <= n  (lo * lo <= n is given)
RECURSIVE ISqrtIn(_, _, _)
ISqrtIn(n, lo, hi) ==
    IF lo >= hi THEN lo
    ELSE LET mid == (lo + hi + 1) \div 2
         IN  IF mid * mid <= n THEN ISqrtIn(n, mid, hi)
             ELSE ISqrtIn(n, lo, mid - 1)

ISqrt(n) == ISqrtIn(n, 0, IF n < 31622 THEN n ELSE 31622)

\* f32::sqrt of a non-negative value; an irrational root is Unrep
Sqrt(a) ==
    IF ~IsNum(a) THEN a
    ELSE LET rn == ISqrt(a[1])
             rd == ISqrt(a[2])
         IN  IF rn * rn = a[1] /\ rd * rd = a[2] THEN <<rn, rd>> ELSE Unrep

\* f32 `>` on numbers (a comparison with a non-number is false)
Greater(a, b) ==
    LET d == Minus(a, b) IN IsNum(d) /\ d[1] > 0

\* --------------------------------------------------------- vector helpers
\* a [f32; 2] is a pair <<v[1], v[2]>> (the code's value[0], value[1])
magnitude(value) ==
    Sqrt(Plus(Times(value[1], value[1]), Times(value[2], value[2])))

normalize(value) ==
    LET m == magnitude(value)
    IN  <<Over(value[1], m), Over(value[2], m)>>

subtract(a, b) == <<Minus(a[1], b[1]), Minus(a[2], b[2])>>

add(a, b) == <<Plus(a[1], b[1]), Plus(a[2], b[2])>>

scalar_mul(a, b) == <<Times(a[1], b), Times(a[2], b)>>

ZeroVec == <<Zero, Zero>>

\* --------------------------------------------------------------- Particle
Particle(m, c, v, p) == [mass |-> m, charge |-> c, velocity |-> v, position |-> p]

simulate_motion_step(self) ==
    [self EXCEPT !.position = add(self.position, self.velocity)]

\* simulate_force with the product of the masses in place of the charges
simulate_force_masses(self, other) ==
    LET line_segment == subtract(self.position, other.position)
        r == magnitude(line_segment)
        cpd == Over(Times(self.mass, other.mass), Times(r, r))
        unit_direction == normalize(line_segment)
        f == scalar_mul(unit_direction, Over(cpd, self.mass))
    IN  [self EXCEPT !.velocity = add(self.velocity, f)]

\* simulate_force with the line segment taken from self to other
simulate_force_reversed(self, other) ==
    LET line_segment == subtract(other.position, self.position)
        r == magnitude(line_segment)
        cpd == Over(Times(self.charge, other.charge), Times(r, r))
        unit_direction == normalize(line_segment)
        f == scalar_mul(unit_direction, Over(cpd, self.mass))
    IN  [self EXCEPT !.velocity = add(self.velocity, f)]

\* simulate_force storing the source particle with the new velocity
simulate_force_from_other(self, other) ==
    LET line_segment == subtract(self.position, other.position)
        r == magnitude(line_segment)
        cpd == Over(Times(self.charge, other.charge), Times(r, r))
        unit_direction == normalize(line_segment)
        f == scalar_mul(unit_direction, Over(cpd, self.mass))
    IN  [other EXCEPT !.velocity = add(self.velocity, f)]

simulate_force(self, other) ==
    LET line_segment == subtract(self.position, other.position)
        r == magnitude(line_segment)
        cpd == Over(Times(self.charge, other.charge), Times(r, r))
        unit_direction == normalize(line_segment)
        f == scalar_mul(unit_direction, Over(cpd, self.mass))
    IN  [self EXCEPT !.velocity = add(self.velocity, f)]

\* no component of the particle is a value the model cannot represent
Representable(p) ==
    /\ p.velocity[1] # Unrep /\ p.velocity[2] # Unrep
    /\ p.position[1] # Unrep /\ p.position[2] # Unrep

\* the inner iterator of particle_sim: (0..x).chain(x + 1..len)
RECURSIVE range(_, _)
range(lo, hi) == IF lo >= hi THEN <<>> ELSE <<lo>> \o range(lo + 1, hi)

\* the inner iterator without the gap at x: 0..len
chain_all(x, len) == range(0, len)

\* the inner iterator over the later particles only: x + 1..len
chain_later(x, len) == range(x + 1, len)

chain(x, len) == range(0, x) \o range(x + 1, len)

\* ------------------------------------------------------------------ state
VARIABLES
    particles,        \* main's Vec<Particle>, indexed 0..len-1
    closed,           \* main's `closed`
    pc,               \* the statement the program is at
    x,                \* particle_sim: the outer loop index
    ys,               \* particle_sim: what is left of the inner iterator
    current_particle, \* particle_sim: the clone of particles[x]
    display_points,   \* main: the Vec<Vertex> built from the particles
    vertex_buffer,    \* main: what vertex_buffer.write stored
    frames,           \* main: number of frames finished (target.finish)
    initial,          \* history: the collection as created
    pre,              \* history: the collection when the current call began
    steps,            \* history: number of calls of particle_sim begun
    advances,         \* history: number of calls of particle_sim returned
    snapshots,        \* history: number of snapshots extracted
    contrib,          \* history: contrib[i][j] = simulate_force calls of this
                      \*   call of particle_sim on particle i with source j
    moved,            \* history: moved[i] = simulate_motion_step calls of
                      \*   this call of particle_sim on particle i
    movedWith,        \* history: what particle i had when it was moved
    lastForce         \* history: what the last simulate_force call read

vars == <<particles, closed, pc, x, ys, current_particle, display_points,
          vertex_buffer, frames, initial, pre, steps, advances, snapshots,
          contrib, moved, movedWith, lastForce>>

len(v) == Cardinality(DOMAIN v)

Indices == DOMAIN particles

\* ----------------------------------------------------------------- inputs
\* main draws positions from Uniform(-1, 1) and charges from Normal(0, 0.03)
\* and gives every particle the same mass.  The model draws them from small
\* sets.  Positions lie on one line through the origin, along a unit vector
\* with rational components, so that every distance is rational.
Masses == {Whole(2)}
Charges == {Whole(-1), Zero, Whole(1)}
Directions == {<<Rat(3, 5), Rat(4, 5)>>}
Coordinates == {Whole(-1), Zero, Whole(1)}
Speeds == {Zero, Whole(1)}

\* what a call of particle_sim has done so far: nothing
NoContrib(n) == [i \in 0 .. n - 1 |-> [j \in 0 .. n - 1 |-> 0]]
NoMoved(n) == [i \in 0 .. n - 1 |-> 0]
NoMovedWith(n) == [i \in 0 .. n - 1 |-> [velocity |-> ZeroVec, got |-> 0]]
NoForce == [target |-> -1, source |-> -1, selfPos |-> ZeroVec,
            otherPos |-> ZeroVec, targetMoved |-> 0, sourceMoved |-> 0]

\* the state in which main reaches its loop with the collection ps
Start(ps, at) ==
    /\ particles = ps
    /\ initial = ps
    /\ pre = ps
    /\ closed = FALSE
    /\ pc = at
    /\ x = 0
    /\ ys = <<>>
    /\ current_particle = Particle(Zero, Zero, ZeroVec, ZeroVec)
    /\ display_points = <<>>
    /\ vertex_buffer = <<>>
    /\ frames = 0
    /\ steps = 0
    /\ advances = 0
    /\ snapshots = 0
    /\ contrib = NoContrib(len(ps))
    /\ moved = NoMoved(len(ps))
    /\ movedWith = NoMovedWith(len(ps))
    /\ lastForce = NoForce

\* main, lines 68-124: n particles of one mass, zero velocity
Init ==
    \E n \in 0 .. MaxN, m \in Masses, dir \in Directions :
      \E cs \in [0 .. n - 1 -> Charges], ts \in [0 .. n - 1 -> Coordinates] :
        Start([i \in 0 .. n - 1 |->
                 Particle(m, cs[i], ZeroVec, scalar_mul(dir, ts[i]))], "while")

\* particle_sim as a function of any collection: each particle has its own
\* mass, a non-zero charge and a velocity along the line
SimMasses == {Whole(1), Whole(2)}
SimCharges == {Whole(-1), Whole(1)}

InitSim ==
    \E n \in 0 .. MaxSimN, dir \in Directions :
      \E ms \in [0 .. n - 1 -> SimMasses], cs \in [0 .. n - 1 -> SimCharges],
         ts \in [0 .. n - 1 -> Coordinates], ss \in [0 .. n - 1 -> Speeds] :
        Start([i \in 0 .. n - 1 |->
                 Particle(ms[i], cs[i], scalar_mul(dir, ss[i]),
                          scalar_mul(dir, ts[i]))], "while")

\* ----------------------------------------------------------- particle_sim
\* the call: control enters the function with x at the start of 0..len
Call ==
    /\ x' = 0
    /\ pre' = particles
    /\ steps' = steps + 1
    /\ contrib' = NoContrib(len(particles))
    /\ moved' = NoMoved(len(particles))
    /\ movedWith' = NoMovedWith(len(particles))
    /\ lastForce' = NoForce

\* ForX with the clone taken from the particle as already moved
ForX_ahead ==
    /\ pc = "for_x"
    /\ x < len(particles)
    /\ current_particle' = simulate_motion_step(particles[x])
    /\ ys' = chain(x, len(particles))
    /\ pc' = "for_y"
    /\ UNCHANGED <<particles, closed, x, display_points, vertex_buffer,
                   frames, initial, pre, steps, advances, snapshots, contrib,
                   moved, movedWith, lastForce>>

\* for x in 0..particles.len() { let current_particle = particles[x].clone();
ForX ==
    /\ pc = "for_x"
    /\ x < len(particles)
    /\ current_particle' = particles[x]
    /\ ys' = chain(x, len(particles))
    /\ pc' = "for_y"
    /\ UNCHANGED <<particles, closed, x, display_points, vertex_buffer,
                   frames, initial, pre, steps, advances, snapshots, contrib,
                   moved, movedWith, lastForce>>

\* for y in ... { particles[y].simulate_force(&current_particle); }
ForY ==
    /\ pc = "for_y"
    /\ ys # <<>>
    /\ LET y == Head(ys)
           after == simulate_force(particles[y], current_particle)
       IN  /\ Representable(after)
           /\ particles' = [particles EXCEPT ![y] = after]
           /\ contrib' = [contrib EXCEPT ![y][x] = @ + 1]
           /\ lastForce' = [target |-> y, source |-> x,
                            selfPos |-> particles[y].position,
                            otherPos |-> current_particle.position,
                            targetMoved |-> moved[y],
                            sourceMoved |-> moved[x]]
    /\ ys' = Tail(ys)
    /\ UNCHANGED <<closed, pc, x, current_particle, display_points,
                   vertex_buffer, frames, initial, pre, steps, advances,
                   snapshots, moved, movedWith>>

\* the number of contributions particle i has received in this call
RECURSIVE SumTo(_, _)
SumTo(f, k) == IF k < 0 THEN 0 ELSE f[k] + SumTo(f, k - 1)

Received(i) == SumTo(contrib[i], len(particles) - 1)

\* particles[x].simulate_motion_step(); }
MotionStep ==
    /\ pc = "for_y"
    /\ ys = <<>>
    /\ LET after == simulate_motion_step(particles[x])
       IN  /\ Representable(after)
           /\ particles' = [particles EXCEPT ![x] = after]
    /\ moved' = [moved EXCEPT ![x] = @ + 1]
    /\ movedWith' = [movedWith EXCEPT ![x] =
                       [velocity |-> particles[x].velocity, got |-> Received(x)]]
    /\ x' = x + 1
    /\ pc' = "for_x"
    /\ UNCHANGED <<closed, ys, current_particle, display_points,
                   vertex_buffer, frames, initial, pre, steps, advances,
                   snapshots, contrib, lastForce>>

\* the outer loop is exhausted: particle_sim returns to main
Return ==
    /\ pc = "for_x"
    /\ x = len(particles)
    /\ advances' = advances + 1
    /\ pc' = "snapshot"
    /\ UNCHANGED <<particles, closed, x, ys, current_particle, display_points,
                   vertex_buffer, frames, initial, pre, steps, snapshots,
                   contrib, moved, movedWith, lastForce>>

\* ------------------------------------------------------------------- main
Red == <<Whole(1), Rat(1, 5), Rat(1, 5)>>
Blue == <<Rat(1, 5), Rat(2, 5), Whole(1)>>

\* Vertex { position: particle.position, color: if particle.charge > 0.0 .. }
Vertex(particle) ==
    [position |-> particle.position,
     color |-> IF Greater(particle.charge, Zero) THEN Red ELSE Blue]

\* for particle in &particles { display_points.push(Vertex { .. }) }
Points(ps) == [k \in 1 .. len(ps) |-> Vertex(ps[k - 1])]

\* a loop condition that never fails
while_cond_always == TRUE

\* the condition of `while !closed`
while_cond == ~closed

\* while !closed { particle_sim(&mut particles);
WhileEnter ==
    /\ pc = "while"
    /\ while_cond
    /\ steps < MaxSteps
    /\ Call
    /\ pc' = "for_x"
    /\ UNCHANGED <<particles, closed, ys, current_particle, display_points,
                   vertex_buffer, frames, initial, advances, snapshots>>

\* the loop condition fails: main returns
WhileExit ==
    /\ pc = "while"
    /\ ~while_cond
    /\ pc' = "exit"
    /\ UNCHANGED <<particles, closed, x, ys, current_particle, display_points,
                   vertex_buffer, frames, initial, pre, steps, advances,
                   snapshots, contrib, moved, movedWith, lastForce>>

\* lines 128-139: build display_points and write them to the vertex buffer
Snapshot ==
    /\ pc = "snapshot"
    /\ display_points' = Points(particles)
    /\ vertex_buffer' = Points(particles)
    /\ snapshots' = snapshots + 1
    /\ pc' = "draw"
    /\ UNCHANGED <<particles, closed, x, ys, current_particle, frames, initial,
                   pre, steps, advances, contrib, moved, movedWith, lastForce>>

\* lines 141-152: clear, draw the vertex buffer, finish the frame
Draw ==
    /\ pc = "draw"
    /\ frames' = frames + 1
    /\ pc' = "poll"
    /\ UNCHANGED <<particles, closed, x, ys, current_particle, display_points,
                   vertex_buffer, initial, pre, steps, advances, snapshots,
                   contrib, moved, movedWith, lastForce>>

\* the events one poll_events call may deliver
Events == {<<>>, <<"Other">>, <<"CloseRequested">>, <<"Other", "CloseRequested">>}

\* lines 154-160: CloseRequested sets closed, every other event is ignored
PollEvents ==
    /\ pc = "poll"
    /\ \E evs \in Events :
         closed' = (closed \/ \E k \in DOMAIN evs : evs[k] = "CloseRequested")
    /\ pc' = "while"
    /\ UNCHANGED <<particles, x, ys, current_particle, display_points,
                   vertex_buffer, frames, initial, pre, steps, advances,
                   snapshots, contrib, moved, movedWith, lastForce>>

Next ==
    \/ WhileEnter
    \/ ForX
    \/ ForY
    \/ MotionStep
    \/ Return
    \/ Snapshot
    \/ Draw
    \/ PollEvents
    \/ WhileExit

Spec == Init /\ [][Next]_vars

\* one call of particle_sim on a collection of InitSim
CallOnce == steps = 0 /\ WhileEnter

NextSim ==
    \/ CallOnce
    \/ ForX
    \/ ForY
    \/ MotionStep
    \/ Return

SpecSim == InitSim /\ [][NextSim]_vars

\* ----------------------------------------------------------------- claims
InSim == pc \in {"for_x", "for_y"}
Returned == pc = "snapshot"
Forced == lastForce.target # -1

AllZeroVelocity(ps) == \A i \in DOMAIN ps : ps[i].velocity = ZeroVec
Distinct(ps) ==
    \A i, j \in DOMAIN ps : i # j => ps[i].position # ps[j].position

\* the distance between particles 0 and 1 of a collection
Separation(ps) == magnitude(subtract(ps[0].position, ps[1].position))

\* a / b > c / d for naturals a, c and positive b, d, by continued fractions
RECURSIVE FracGreater(_, _, _, _)
FracGreater(a, b, c, d) ==
    IF a \div b # c \div d THEN a \div b > c \div d
    ELSE IF a % b = 0 THEN FALSE
    ELSE IF c % d = 0 THEN TRUE
    ELSE FracGreater(d, c % d, b, a % b)

\* C1: every simulate_force call of a step reads, for the particle being
\* accelerated and for the source particle, the position it had when the
\* step began.
C1_PreStepReads ==
    Forced =>
      /\ lastForce.selfPos = pre[lastForce.target].position
      /\ lastForce.otherPos = pre[lastForce.source].position

SymmetricPair(ps) ==
    /\ len(ps) = 2
    /\ ps[0].mass = ps[1].mass
    /\ ps[0].charge # Zero
    /\ ps[0].charge = Neg(ps[1].charge)
    /\ AllZeroVelocity(ps)
    /\ ps[0].position = scalar_mul(ps[1].position, Whole(-1))
    /\ ps[0].position # ps[1].position

\* C3: for a symmetric pair, each call changes the velocity of particle 0 by
\* the negation of the change of particle 1, and the two velocities sum to
\* the zero vector after every step.
C3_MomentumBalance ==
    (SymmetricPair(initial) /\ ~InSim /\ advances >= 1) =>
      /\ subtract(particles[0].velocity, pre[0].velocity)
           = scalar_mul(subtract(particles[1].velocity, pre[1].velocity),
                        Whole(-1))
      /\ add(particles[0].velocity, particles[1].velocity) = ZeroVec

Uncharged(ps) ==
    /\ \A i \in DOMAIN ps : ps[i].charge = Zero
    /\ AllZeroVelocity(ps)
    /\ Distinct(ps)

\* C4: when every charge is 0, every velocity starts at the zero vector and
\* no two particles coincide, every velocity stays the zero vector and every
\* position stays at its initial value, after any number of calls.
C4_UnchargedAtRest ==
    Uncharged(initial) =>
      \A i \in Indices :
        /\ particles[i].velocity = ZeroVec
        /\ particles[i].position = initial[i].position

C4_Witness ==
    /\ Uncharged(initial)
    /\ len(particles) >= 2
    /\ advances >= 2

\* two particles with non-zero charges of one sign, at rest, apart
LikePair(ps) ==
    /\ len(ps) = 2
    /\ ps[0].charge # Zero
    /\ Greater(Times(ps[0].charge, ps[1].charge), Zero)
    /\ AllZeroVelocity(ps)
    /\ Distinct(ps)

\* C5: for a like-charged pair the distance after each call is strictly
\* greater than the distance before it (where the model can represent both
\* distances).
C5_Repulsion ==
    (LikePair(initial) /\ Returned
       /\ Separation(pre) # Unrep /\ Separation(particles) # Unrep) =>
      LET before == Separation(pre)
          after == Separation(particles)
      IN  /\ IsNum(before) /\ IsNum(after)
          /\ FracGreater(after[1], after[2], before[1], before[2])

C5_Witness ==
    /\ LikePair(initial)
    /\ Returned
    /\ advances = 2
    /\ IsNum(Separation(pre))
    /\ IsNum(Separation(particles))
    /\ Separation(particles) # Separation(pre)

\* C6: the collection keeps its length and index order, and every particle
\* keeps the mass and the charge it was created with.
C6_MassChargeFrame ==
    /\ DOMAIN particles = DOMAIN initial
    /\ \A i \in Indices :
         /\ particles[i].mass = initial[i].mass
         /\ particles[i].charge = initial[i].charge

C6_Witness ==
    /\ advances >= 2
    /\ len(particles) >= 2
    /\ \E i, j \in Indices :
         /\ particles[i].charge # particles[j].charge
         /\ particles[i].velocity # initial[i].velocity
         /\ particles[i].position # initial[i].position

\* where the driver loop is, phase by phase
C7_Phases ==
    /\ pc \in {"while", "for_x", "for_y", "snapshot", "draw", "poll", "exit"}
    /\ InSim => steps = advances + 1 /\ snapshots = advances /\ frames = advances
    /\ ~InSim => steps = advances
    /\ pc = "snapshot" => snapshots + 1 = advances /\ frames = snapshots
    /\ pc = "draw" => snapshots = advances /\ frames + 1 = snapshots
    /\ pc \in {"poll", "while", "exit"} =>
         snapshots = advances /\ frames = snapshots
    /\ (snapshots >= 1 /\ pc \in {"draw", "poll"}) =>
         /\ Len(display_points) = len(particles)
         /\ \A k \in 1 .. Len(display_points) :
              /\ display_points[k].position = particles[k - 1].position
              /\ display_points[k].color =
                   IF particles[k - 1].charge[1] > 0 THEN Red ELSE Blue
         /\ vertex_buffer = display_points
    /\ closed => pc \in {"while", "exit"}
    /\ pc = "exit" => closed

C7_Order ==
    /\ pc = "while" => pc' \in {"for_x", "exit"}
    /\ pc = "for_x" => pc' \in {"for_y", "snapshot"}
    /\ pc = "for_y" => pc' \in {"for_y", "for_x"}
    /\ pc = "snapshot" => pc' = "draw"
    /\ pc = "draw" => pc' = "poll"
    /\ pc = "poll" => pc' = "while"
    /\ pc = "exit" => pc' = "exit"
    /\ closed' # closed => pc = "poll" /\ closed'
    /\ closed =>
         /\ pc' = "exit"
         /\ particles' = particles
         /\ steps' = steps
         /\ snapshots' = snapshots
    /\ snapshots' # snapshots =>
         /\ snapshots' = advances
         /\ display_points' = Points(particles)
         /\ particles' = particles

\* C7: each iteration runs advance, snapshot, draw, poll in this order; a
\* snapshot is taken only when the advance has returned, the k-th after
\* exactly k advances, one entry per particle in index order; a close
\* request is acted on only at the loop condition, and once it is observed
\* there is no further advance or snapshot and the loop is left.
C7_DriverOrder == []C7_Phases /\ [][C7_Order]_vars

C7_Witness ==
    /\ pc = "exit"
    /\ advances = 2
    /\ snapshots = 2
    /\ len(particles) >= 2
    /\ \E i \in Indices : particles[i].position # initial[i].position

\* C8: in one call, each ordered pair (i, j), i # j, gives exactly one
\* contribution of source j to particle i, no particle gets one from itself,
\* every position is advanced exactly once, and so each particle receives
\* n - 1 contributions.
C8_PairsOnce ==
    /\ \A i, j \in Indices : contrib[i][j] <= 1
    /\ \A i \in Indices : contrib[i][i] = 0 /\ moved[i] <= 1
    /\ Returned =>
         \A i \in Indices :
           /\ \A j \in Indices \ {i} : contrib[i][j] = 1
           /\ moved[i] = 1
           /\ Received(i) = len(particles) - 1

C8_Witness ==
    /\ Returned
    /\ len(particles) = 3
    /\ \A i \in Indices : Received(i) = 2

\* C9: the position of particle i is advanced only when all n - 1
\* contributions of the step have been added to velocity(i), so the velocity
\* added to position(i) is velocity(i) as it stands at the end of the step.
C9_MoveAfterAccumulation ==
    /\ \A i \in Indices :
         moved[i] >= 1 => movedWith[i].got = len(particles) - 1
    /\ Returned =>
         \A i \in Indices : movedWith[i].velocity = particles[i].velocity

\* C10 as stated: when the contribution of an earlier source i on a later
\* particle j is computed, the source has already been moved in this step
\* and the particle being accelerated has not.
C10_EarlierSourceMoved ==
    (Forced /\ lastForce.source < lastForce.target) =>
      /\ lastForce.sourceMoved = 1
      /\ lastForce.targetMoved = 0
      /\ lastForce.selfPos = pre[lastForce.target].position

\* C10 as amended: a source is always read at its pre-step position; when
\* the contribution of a later source j on an earlier particle i is
\* computed, the particle being accelerated is at its already-moved
\* position; when the source is the earlier one, the particle being
\* accelerated is still at its pre-step position.
C10_EarlierTargetMoved ==
    Forced =>
      /\ lastForce.sourceMoved = 0
      /\ lastForce.otherPos = pre[lastForce.source].position
      /\ lastForce.target < lastForce.source =>
           /\ lastForce.targetMoved = 1
           /\ lastForce.selfPos =
                add(pre[lastForce.target].position,
                    movedWith[lastForce.target].velocity)
      /\ lastForce.source < lastForce.target =>
           /\ lastForce.targetMoved = 0
           /\ lastForce.selfPos = pre[lastForce.target].position

C10_Witness ==
    /\ Forced
    /\ lastForce.target < lastForce.source
    /\ lastForce.targetMoved = 1
    /\ lastForce.selfPos # pre[lastForce.target].position
    /\ lastForce.otherPos = pre[lastForce.source].position

====
